---- MODULE Spec2Model ----
(***************************************************************************)
(* Change detection, daily ledger and daily digest of the Amazon price     *)
(* watcher (src/app.py): process_once, append_daily_change,                *)
(* get_and_clear_today_changes, send_daily_summary_if_time, main_loop,     *)
(* cargar_json and guardar_json; and the fetch loop of analyze_page.       *)
(*                                                                         *)
(* The scrape source (analyze_page) is an input: a page is a list of up to  *)
(* MaxPageLen products, and each product is drawn from Products when the   *)
(* loop over the page reads it.  The Telegram sink is an input too: every  *)
(* send returns TRUE or FALSE.  titulo and link of a product are carried   *)
(* by the code from the record to the history entry and to the event       *)
(* without being read; they are left out of the records below.             *)
(***************************************************************************)
EXTENDS Integers, Sequences, FiniteSets, TLC

\* ---------------------------------------------------------------- bounds
MaxDay == 1          \* calendar dates 0..MaxDay
MaxPrice == 2        \* prices 1..MaxPrice
MaxPageLen == 2      \* records on one result page
MaxUrls == 1         \* result pages per cycle (tags x PAGES_PER_TAG)
MaxCrashes == 1      \* process restarts
MaxEvents == 32      \* events in the list of one date when its digest fires

\* ------------------------------------------------------------- constants
SUMMARY_HOUR == 20
HoursPerDay == 24
None == 0            \* Python None for precio / old
SUMMARY_CAP == 30    \* changes[:30]
MAX_RETRIES == 3     \* analyze_page(url, max_retries=3)
HTTP_OK == 200       \* if status != 200

Asins == {"A", "B"}
Prices == 1..MaxPrice
Dates == 0..MaxDay

\* The wall clock is read in the summary hour and in the hour after it, on
\* every date.  A timestamp is date * HoursPerDay + hour.
ObservedHours == {SUMMARY_HOUR, SUMMARY_HOUR + 1}
Times == {d * HoursPerDay + h : d \in Dates, h \in ObservedHours}
FirstTime == 0 * HoursPerDay + SUMMARY_HOUR
Today(t) == t \div HoursPerDay
Hour(t) == t % HoursPerDay

\* A scraped product: asin and precio (None allowed).  Its image field is
\* drawn when the loop body reads it (image = prod.get("image")).
Products == [asin : Asins, precio : Prices \cup {None}]
NoProd == [asin |-> "", precio |-> None]

EmptyMap == [k \in {} |-> None]
Put(map, k, v) == [x \in (DOMAIN map) \cup {k} |-> IF x = k THEN v ELSE map[x]]

VARIABLES
    pc,          \* position of main_loop
    clock,       \* datetime.now(), a member of Times
    history,     \* the dict main_loop holds in memory : asin -> entry
    dataFile,    \* DATA_FILE on disk
    dailyFile,   \* DAILY_FILE on disk
    sentinels,   \* dates d whose summary_sent_<d>.flag exists in LOG_DIR
    urlIdx,      \* pages of this cycle already fetched
    pageLen,     \* len(productos) of the page being processed
    idx,         \* position in productos of the next product (1-based)
    prod,        \* the product the loop body last ran on
    image,       \* its prod.get("image"), as a truth value
    changes,     \* the list send_daily_summary_if_time drained
    sends,       \* the sink calls the last step made, in order
    lastClass,   \* the branch the last pass of the loop body took
    summaries,   \* date -> number of summary notifications sent for it
    crashes,     \* restarts so far
    committed,   \* the last document written to DATA_FILE in full
    tracking,    \* whether seen is kept
    seen,        \* the products the loop body ran on since the process started
    attempt,     \* analyze_page: attempt
    outcomes     \* analyze_page: what each session.get of this call answered

vars == <<pc, clock, history, dataFile, dailyFile, sentinels, urlIdx, pageLen, idx, prod,
          image, changes, sends, lastClass, summaries, crashes, committed, tracking, seen,
          attempt, outcomes>>

\* The locals of analyze_page; the loop of main_loop sees only what it returns.
fetchVars == <<attempt, outcomes>>

\* ----------------------------------------------------------- persistence
\* A file is missing, holds a JSON document, or was truncated by open(.., "w")
\* and not written yet.
MissingFile == [st |-> "missing", data |-> EmptyMap]
TruncatedFile == [st |-> "truncated", data |-> EmptyMap]
FileOf(data) == [st |-> "ok", data |-> data]

\* A file that exists and cannot be loaded: its bytes are not a JSON document
\* (what is left of data), or open() is refused.
CorruptFile(data) == [st |-> "corrupt", data |-> data]
UnreadableFile(data) == [st |-> "unreadable", data |-> data]

cargar_jsonUnguarded(file, default) ==
    IF file.st = "missing" THEN default ELSE file.data

cargar_json(file, default) ==
    IF file.st = "ok" THEN file.data ELSE default

\* ------------------------------------------------------ daily summary helpers
append_daily_change(file, change_obj, today) ==
    LET daily == cargar_json(file, EmptyMap)
        withToday == IF today \in DOMAIN daily THEN daily ELSE Put(daily, today, <<>>)
    IN FileOf(Put(withToday, today, Append(withToday[today], change_obj)))

TodayChanges(file, today) ==
    LET daily == cargar_json(file, EmptyMap)
    IN IF today \in DOMAIN daily THEN daily[today] ELSE <<>>

ClearTodayKeeps(file, today) == file

ClearToday(file, today) ==
    LET daily == cargar_json(file, EmptyMap)
    IN IF today \in DOMAIN daily THEN FileOf(Put(daily, today, <<>>)) ELSE file

\* One call: the list it returns and DAILY_FILE as it leaves it.
get_and_clear_today_changes(file, today) ==
    [changes |-> TodayChanges(file, today), file |-> ClearToday(file, today)]

\* ------------------------------------------------------------ process_once
\* A history entry written by this program is a dict
\*   [kind |-> "dict", precio, last_seen].
\* A DATA_FILE written in the flat asin -> price layout loads as entries that
\* are numbers, not dicts: [kind |-> "flat", precio, last_seen |-> 0].

\* The branch the loop body takes for one product.
\*   "skip"      precio is None
\*   "new"       the asin is not in history
\*   "raise"     prev is not a dict: prev.get raises AttributeError
\*   "drop"      prev_price is not None and precio < prev_price
\*   "unchanged" otherwise
ClassifyPricedNone(hist, p) ==
    IF p.asin \notin DOMAIN hist THEN "new"
    ELSE IF hist[p.asin].kind # "dict" THEN "raise"
    ELSE IF hist[p.asin].precio # None /\ p.precio < hist[p.asin].precio THEN "drop"
    ELSE "unchanged"

ClassifyDropOnEqual(hist, p) ==
    IF p.precio = None THEN "skip"
    ELSE IF p.asin \notin DOMAIN hist THEN "new"
    ELSE IF hist[p.asin].kind # "dict" THEN "raise"
    ELSE IF hist[p.asin].precio # None /\ p.precio <= hist[p.asin].precio THEN "drop"
    ELSE "unchanged"

Classify(hist, p) ==
    IF p.precio = None THEN "skip"
    ELSE IF p.asin \notin DOMAIN hist THEN "new"
    ELSE IF hist[p.asin].kind # "dict" THEN "raise"
    ELSE IF hist[p.asin].precio # None /\ p.precio < hist[p.asin].precio THEN "drop"
    ELSE "unchanged"

NotifyRetriesText(img, photoOk, textOk) ==
    LET text == IF textOk THEN << [kind |-> "text", ok |-> TRUE] >>
                ELSE << [kind |-> "text", ok |-> FALSE], [kind |-> "text", ok |-> FALSE] >>
    IN IF img
       THEN IF photoOk THEN << [kind |-> "photo", ok |-> TRUE] >>
            ELSE << [kind |-> "photo", ok |-> FALSE] >> \o text
       ELSE text

\* Photo first; text when there is no image or the photo send returned False.
Notify(img, photoOk, textOk) ==
    IF img
    THEN IF photoOk THEN << [kind |-> "photo", ok |-> TRUE] >>
         ELSE << [kind |-> "photo", ok |-> FALSE], [kind |-> "text", ok |-> textOk] >>
    ELSE << [kind |-> "text", ok |-> textOk] >>

HistoryAfterLosesNew(hist, p, class, now) ==
    CASE class = "drop" ->
            Put(hist, p.asin, [hist[p.asin] EXCEPT !.precio = p.precio, !.last_seen = now])
      [] class = "unchanged" ->
            Put(hist, p.asin, [hist[p.asin] EXCEPT !.last_seen = now])
      [] OTHER -> hist

HistoryAfterKeepsPriceOnDrop(hist, p, class, now) ==
    CASE class = "new" ->
            Put(hist, p.asin, [kind |-> "dict", precio |-> p.precio, last_seen |-> now])
      [] class \in {"drop", "unchanged"} ->
            Put(hist, p.asin, [hist[p.asin] EXCEPT !.last_seen = now])
      [] OTHER -> hist

HistoryAfterStaleOnUnchanged(hist, p, class, now) ==
    CASE class = "new" ->
            Put(hist, p.asin, [kind |-> "dict", precio |-> p.precio, last_seen |-> now])
      [] class = "drop" ->
            Put(hist, p.asin, [hist[p.asin] EXCEPT !.precio = p.precio, !.last_seen = now])
      [] OTHER -> hist

HistoryAfterStoresEveryPrice(hist, p, class, now) ==
    CASE class = "new" ->
            Put(hist, p.asin, [kind |-> "dict", precio |-> p.precio, last_seen |-> now])
      [] class \in {"drop", "unchanged"} ->
            Put(hist, p.asin, [hist[p.asin] EXCEPT !.precio = p.precio, !.last_seen = now])
      [] OTHER -> hist

HistoryAfter(hist, p, class, now) ==
    CASE class = "new" ->
            Put(hist, p.asin, [kind |-> "dict", precio |-> p.precio, last_seen |-> now])
      [] class = "drop" ->
            Put(hist, p.asin, [hist[p.asin] EXCEPT !.precio = p.precio, !.last_seen = now])
      [] class = "unchanged" ->
            Put(hist, p.asin, [hist[p.asin] EXCEPT !.last_seen = now])
      [] OTHER -> hist

\* The change_obj of a new product or of a price drop (its time stamp is the
\* date of the list it is appended to).
ChangeOf(hist, p, class) ==
    IF class = "new"
    THEN [type |-> "new", asin |-> p.asin, old |-> None, new |-> p.precio]
    ELSE [type |-> "drop", asin |-> p.asin, old |-> hist[p.asin].precio,
          new |-> p.precio]

DailyAfter(file, hist, p, class, now) ==
    IF class \in {"new", "drop"}
    THEN append_daily_change(file, ChangeOf(hist, p, class), Today(now))
    ELSE file

\* The effect of one pass of the loop body on product p that took branch
\* class and made the sink calls msgs.  An exception leaves the page: the
\* except clause of process_once is outside "for prod in productos".
RecordPass(p, img, class, msgs) ==
    /\ prod' = p
    /\ image' = img
    /\ lastClass' = class
    /\ sends' = msgs
    /\ history' = HistoryAfter(history, p, class, clock)
    /\ dailyFile' = DailyAfter(dailyFile, history, p, class, clock)
    /\ idx' = idx + 1
    /\ pc' = IF class = "raise" THEN "next_url" ELSE pc
    /\ seen' = IF tracking THEN seen \cup {p} ELSE seen

\* What the sink can answer to the sends of one notification.
Deliveries(img) == {Notify(img, photoOk, textOk) : photoOk, textOk \in BOOLEAN}

ProcessProdOnlyIfSent(p, img) ==
    LET class == Classify(history, p)
    IN \E msgs \in (IF class \in {"new", "drop"} THEN Deliveries(img) ELSE {<<>>}) :
          IF class \in {"new", "drop"} /\ ~msgs[Len(msgs)].ok
          THEN /\ prod' = p
               /\ image' = img
               /\ lastClass' = class
               /\ sends' = msgs
               /\ idx' = idx + 1
               /\ UNCHANGED <<pc, history, dailyFile, seen>>
          ELSE RecordPass(p, img, class, msgs)

\* One pass of the body of "for prod in productos".
ProcessProd(p, img) ==
    LET class == Classify(history, p)
    IN \E msgs \in (IF class \in {"new", "drop"} THEN Deliveries(img) ELSE {<<>>}) :
          RecordPass(p, img, class, msgs)

\* ---------------------------------------------------------------- actions
StartState ==
    /\ pc = "boot"
    /\ clock = FirstTime
    /\ history = EmptyMap
    /\ dailyFile = MissingFile
    /\ sentinels = {}
    /\ urlIdx = 0
    /\ pageLen = 0
    /\ idx = 1
    /\ prod = NoProd
    /\ image = FALSE
    /\ changes = <<>>
    /\ sends = <<>>
    /\ lastClass = "none"
    /\ summaries = [d \in Dates |-> 0]
    /\ crashes = 0
    /\ seen = {}
    /\ attempt = 0
    /\ outcomes = <<>>

\* The first start: no file exists yet.
Init ==
    /\ StartState
    /\ dataFile = MissingFile
    /\ committed = EmptyMap
    /\ tracking = FALSE

\* main_loop before its while: the start message and the load of DATA_FILE.
Boot ==
    /\ pc = "boot"
    /\ history' = cargar_json(dataFile, EmptyMap)
    /\ \E textOk \in BOOLEAN : sends' = << [kind |-> "text", ok |-> textOk] >>
    /\ pc' = "next_url"
    /\ urlIdx' = 0
    /\ UNCHANGED <<clock, dataFile, dailyFile, sentinels, pageLen, idx, prod, image, changes,
                   lastClass, summaries, crashes, committed, tracking, seen>>
    /\ UNCHANGED fetchVars

\* for url in urls: productos = analyze_page(url)
FetchPage ==
    /\ pc = "next_url"
    /\ urlIdx < MaxUrls
    /\ \E n \in 0..MaxPageLen : pageLen' = n
    /\ idx' = 1
    /\ urlIdx' = urlIdx + 1
    /\ pc' = "records"
    /\ prod' = NoProd
    /\ image' = FALSE
    /\ sends' = <<>>
    /\ lastClass' = "none"
    /\ UNCHANGED <<clock, history, dataFile, dailyFile, sentinels, changes, summaries,
                   crashes, committed, tracking, seen>>
    /\ UNCHANGED fetchVars

ProcessRecord ==
    /\ pc = "records"
    /\ idx <= pageLen
    /\ \E p \in Products, img \in BOOLEAN : ProcessProd(p, img)
    /\ UNCHANGED <<clock, dataFile, sentinels, urlIdx, pageLen, changes, summaries,
                   crashes, committed, tracking>>
    /\ UNCHANGED fetchVars

\* The for loop over the page ends.
PageDone ==
    /\ pc = "records"
    /\ idx > pageLen
    /\ pc' = "next_url"
    /\ pageLen' = 0
    /\ idx' = 1
    /\ prod' = NoProd
    /\ image' = FALSE
    /\ sends' = <<>>
    /\ lastClass' = "none"
    /\ UNCHANGED <<clock, history, dataFile, dailyFile, sentinels, urlIdx, changes,
                   summaries, crashes, committed, tracking, seen>>
    /\ UNCHANGED fetchVars

\* guardar_json(DATA_FILE, history): open(path, "w") truncates the file ...
SaveOpen ==
    /\ pc = "next_url"
    /\ urlIdx = MaxUrls
    /\ dataFile' = TruncatedFile
    /\ pc' = "save_dump"
    /\ pageLen' = 0
    /\ idx' = 1
    /\ prod' = NoProd
    /\ image' = FALSE
    /\ sends' = <<>>
    /\ lastClass' = "none"
    /\ UNCHANGED <<clock, history, dailyFile, sentinels, urlIdx, changes, summaries,
                   crashes, committed, tracking, seen>>
    /\ UNCHANGED fetchVars

\* ... and json.dump writes the document.
SaveDump ==
    /\ pc = "save_dump"
    /\ dataFile' = FileOf(history)
    /\ committed' = history
    /\ pc' = "digest"
    /\ UNCHANGED <<clock, history, dailyFile, sentinels, urlIdx, pageLen, idx, prod, image,
                   changes, sends, lastClass, summaries, crashes, tracking, seen>>
    /\ UNCHANGED fetchVars

SummaryDueHourOnly(now, flags) == Hour(now) = SUMMARY_HOUR
SummaryDueAnyHour(now, flags) == Today(now) \notin flags

\* The two early returns of send_daily_summary_if_time.
SummaryDue(now, flags) == Hour(now) = SUMMARY_HOUR /\ Today(now) \notin flags

\* send_daily_summary_if_time up to and including get_and_clear_today_changes.
DigestCheck ==
    /\ pc = "digest"
    /\ IF SummaryDue(clock, sentinels)
       THEN /\ changes' = TodayChanges(dailyFile, Today(clock))
            /\ dailyFile' = ClearToday(dailyFile, Today(clock))
            /\ pc' = "drained"
       ELSE /\ pc' = "sleep"
            /\ UNCHANGED <<changes, dailyFile>>
    /\ sends' = <<>>
    /\ UNCHANGED <<clock, history, dataFile, sentinels, urlIdx, pageLen, idx, prod, image,
                   lastClass, summaries, crashes, committed, tracking, seen>>
    /\ UNCHANGED fetchVars

DigestEmptyNoFlag ==
    /\ pc = "drained"
    /\ changes = <<>>
    /\ pc' = "sleep"
    /\ UNCHANGED <<clock, history, dataFile, dailyFile, sentinels, urlIdx, pageLen, idx, prod,
                   image, changes, sends, lastClass, summaries, crashes, committed, tracking,
                   seen>>
    /\ UNCHANGED fetchVars

\* if not changes: the sentinel is written and nothing is sent.
DigestEmpty ==
    /\ pc = "drained"
    /\ changes = <<>>
    /\ sentinels' = sentinels \cup {Today(clock)}
    /\ pc' = "sleep"
    /\ UNCHANGED <<clock, history, dataFile, dailyFile, urlIdx, pageLen, idx, prod, image,
                   changes, sends, lastClass, summaries, crashes, committed, tracking, seen>>
    /\ UNCHANGED fetchVars

Min(a, b) == IF a <= b THEN a ELSE b

\* The line of the summary for one change: titulo and link stand behind asin.
SummaryLine(c) ==
    IF c.type = "new"
    THEN [kind |-> "new", asin |-> c.asin, new |-> c.new]
    ELSE [kind |-> "drop", asin |-> c.asin, old |-> c.old, new |-> c.new]

SummaryLinesUncapped(chs, today) ==
    << [kind |-> "header", date |-> today] >>
        \o [i \in 1..Len(chs) |-> SummaryLine(chs[i])]

\* lines: the header, one line per change of changes[:30], and the note
\* "... y N más." when len(changes) > 30.
SummaryLines(chs, today) ==
    << [kind |-> "header", date |-> today] >>
        \o [i \in 1..Min(Len(chs), SUMMARY_CAP) |-> SummaryLine(chs[i])]
        \o (IF Len(chs) > SUMMARY_CAP
            THEN << [kind |-> "more", count |-> Len(chs) - SUMMARY_CAP] >>
            ELSE <<>>)

\* send_telegram_text(summary)
DigestSend ==
    /\ pc = "drained"
    /\ changes # <<>>
    /\ \E textOk \in BOOLEAN :
          sends' = << [kind |-> "summary", ok |-> textOk,
                       lines |-> SummaryLines(changes, Today(clock))] >>
    /\ summaries' = [summaries EXCEPT ![Today(clock)] = @ + 1]
    /\ pc' = "summary_sent"
    /\ UNCHANGED <<clock, history, dataFile, dailyFile, sentinels, urlIdx, pageLen, idx, prod,
                   image, changes, lastClass, crashes, committed, tracking, seen>>
    /\ UNCHANGED fetchVars

\* open(sentinel, "w").close()
DigestFlag ==
    /\ pc = "summary_sent"
    /\ sentinels' = sentinels \cup {Today(clock)}
    /\ changes' = <<>>
    /\ sends' = <<>>
    /\ pc' = "sleep"
    /\ UNCHANGED <<clock, history, dataFile, dailyFile, urlIdx, pageLen, idx, prod, image,
                   lastClass, summaries, crashes, committed, tracking, seen>>
    /\ UNCHANGED fetchVars

\* time.sleep(wait), then the next pass of "while True": the clock reads t.
SleepUntil(t) ==
    /\ pc = "sleep"
    /\ t >= clock
    /\ clock' = t
    /\ pc' = "next_url"
    /\ urlIdx' = 0
    /\ UNCHANGED <<history, dataFile, dailyFile, sentinels, pageLen, idx, prod, image, changes,
                   sends, lastClass, summaries, crashes, committed, tracking, seen>>
    /\ UNCHANGED fetchVars

Sleep == \E t \in Times : SleepUntil(t)

\* The process dies and is started again: memory is lost, the files stay.
Crash ==
    /\ pc # "boot"
    /\ crashes < MaxCrashes
    /\ crashes' = crashes + 1
    /\ pc' = "boot"
    /\ history' = EmptyMap
    /\ urlIdx' = 0
    /\ pageLen' = 0
    /\ idx' = 1
    /\ prod' = NoProd
    /\ image' = FALSE
    /\ changes' = <<>>
    /\ sends' = <<>>
    /\ lastClass' = "none"
    /\ seen' = {}
    /\ UNCHANGED <<clock, dataFile, dailyFile, sentinels, summaries, committed, tracking>>
    /\ UNCHANGED fetchVars

\* One run of the process.
Next ==
    \/ Boot
    \/ FetchPage
    \/ ProcessRecord
    \/ PageDone
    \/ SaveOpen
    \/ SaveDump
    \/ DigestCheck
    \/ DigestEmpty
    \/ DigestSend
    \/ DigestFlag
    \/ Sleep

Spec == Init /\ [][Next]_vars

\* The process, killed and restarted up to MaxCrashes times, watched until
\* the end of the date it was first started on.
SleepToday == \E t \in Times : Today(t) = Today(clock) /\ SleepUntil(t)

NextRestart ==
    \/ Boot
    \/ FetchPage
    \/ ProcessRecord
    \/ PageDone
    \/ SaveOpen
    \/ SaveDump
    \/ DigestCheck
    \/ DigestEmpty
    \/ DigestSend
    \/ DigestFlag
    \/ SleepToday
    \/ Crash

SpecRestart == Init /\ [][NextRestart]_vars

\* One run of the process in which the products the loop body ran on are
\* remembered.
InitRerun ==
    /\ StartState
    /\ dataFile = MissingFile
    /\ committed = EmptyMap
    /\ tracking = TRUE

SpecRerun == InitRerun /\ [][Next]_vars

\* One run of the process started on a DATA_FILE in the flat asin -> price
\* layout: json.load succeeds and every entry is a number.
LegacyStores ==
    {[a \in S |-> [kind |-> "flat", precio |-> f[a], last_seen |-> None]] :
        S \in (SUBSET Asins) \ {{}}, f \in [Asins -> Prices]}

InitLegacy ==
    /\ StartState
    /\ \E store \in LegacyStores : dataFile = FileOf(store) /\ committed = store
    /\ tracking = FALSE

SpecLegacy == InitLegacy /\ [][Next]_vars

\* The digest check of a cycle that finds n events in the list of the date:
\* product a was new at price top and then dropped by one, n - 1 times (a
\* price here is any positive number, as in the program).
LedgerOfDrops(a, top, n) ==
    [i \in 1..n |->
        IF i = 1
        THEN [type |-> "new", asin |-> a, old |-> None, new |-> top]
        ELSE [type |-> "drop", asin |-> a, old |-> top - i + 2, new |-> top - i + 1]]

InitDigest ==
    /\ pc = "digest"
    /\ clock = FirstTime
    /\ \E a \in Asins, n \in 0..MaxEvents :
          \E top \in (IF n = 0 THEN {0} ELSE n..MaxEvents) :
             /\ history = IF n = 0 THEN EmptyMap
                          ELSE Put(EmptyMap, a, [kind |-> "dict", precio |-> top - n + 1,
                                                  last_seen |-> FirstTime])
             /\ dailyFile = IF n = 0 THEN MissingFile
                            ELSE FileOf(Put(EmptyMap, Today(FirstTime), LedgerOfDrops(a, top, n)))
    /\ dataFile = FileOf(history)
    /\ committed = history
    /\ sentinels = {}
    /\ urlIdx = MaxUrls
    /\ pageLen = 0
    /\ idx = 1
    /\ prod = NoProd
    /\ image = FALSE
    /\ changes = <<>>
    /\ sends = <<>>
    /\ lastClass = "none"
    /\ summaries = [d \in Dates |-> 0]
    /\ crashes = 0
    /\ tracking = FALSE
    /\ seen = {}
    /\ attempt = 0
    /\ outcomes = <<>>

NextDigest ==
    \/ DigestCheck
    \/ DigestEmpty
    \/ DigestSend
    \/ DigestFlag

SpecDigest == InitDigest /\ [][NextDigest]_vars

\* The first cycle of a process started on a DATA_FILE and a DAILY_FILE that
\* are missing or cannot be loaded.
LostStore == Put(EmptyMap, "A", [kind |-> "dict", precio |-> 1, last_seen |-> FirstTime])
LostLedger == Put(EmptyMap, Today(FirstTime),
                  << [type |-> "new", asin |-> "A", old |-> None, new |-> 1] >>)
BadFiles(data) == {MissingFile, TruncatedFile, CorruptFile(data), UnreadableFile(data)}

InitBadFiles ==
    /\ pc = "boot"
    /\ clock = FirstTime
    /\ history = EmptyMap
    /\ dataFile \in BadFiles(LostStore)
    /\ dailyFile \in BadFiles(LostLedger)
    /\ committed = EmptyMap
    /\ sentinels = {}
    /\ urlIdx = 0
    /\ pageLen = 0
    /\ idx = 1
    /\ prod = NoProd
    /\ image = FALSE
    /\ changes = <<>>
    /\ sends = <<>>
    /\ lastClass = "none"
    /\ summaries = [d \in Dates |-> 0]
    /\ crashes = 0
    /\ tracking = TRUE
    /\ seen = {}
    /\ attempt = 0
    /\ outcomes = <<>>

NextFirstCycle ==
    \/ Boot
    \/ FetchPage
    \/ ProcessRecord
    \/ PageDone
    \/ SaveOpen
    \/ SaveDump
    \/ DigestCheck
    \/ DigestEmpty
    \/ DigestSend
    \/ DigestFlag

SpecFirstCycle == InitBadFiles /\ [][NextFirstCycle]_vars

\* ------------------------------------------------------------ analyze_page
\* What one session.get can answer: an exception, or a response with a
\* status and a body that detect_captcha flags or not.  A body that is not
\* flagged and came with status 200 is parsed: records is the number of
\* product dicts the parse yields, soup is FALSE when BeautifulSoup raises.
Answer(kind, status, captcha, records, soup) ==
    [kind |-> kind, status |-> status, captcha |-> captcha, records |-> records,
     soup |-> soup]

Statuses == {HTTP_OK, 503}

Good(ans) == ans.kind = "response" /\ ~ans.captcha /\ ans.status = HTTP_OK

FetchAnswers ==
    {Answer("exception", 0, FALSE, 0, FALSE)}
        \cup {Answer("response", st, TRUE, 0, FALSE) : st \in Statuses}
        \cup {Answer("response", st, FALSE, 0, FALSE) : st \in Statuses \ {HTTP_OK}}
        \cup {Answer("response", HTTP_OK, FALSE, n, soup) :
                 n \in 0..MaxPageLen, soup \in BOOLEAN}

\* The list the parse of a good page returns, by its length.
Parsed(ans) == IF ans.soup THEN ans.records ELSE 0

MayRetryOnceMore(a) == a <= MAX_RETRIES

\* while attempt < max_retries
MayRetry(a) == a < MAX_RETRIES

\* One pass of the while loop: the three "continue" exits go round, a good
\* page returns its records.
FetchAttempt ==
    /\ pc = "fetching"
    /\ MayRetry(attempt)
    /\ attempt' = attempt + 1
    /\ \E ans \in FetchAnswers :
          /\ outcomes' = Append(outcomes, ans)
          /\ IF Good(ans)
             THEN pageLen' = Parsed(ans) /\ pc' = "fetched"
             ELSE pageLen' = pageLen /\ pc' = pc
    /\ UNCHANGED <<clock, history, dataFile, dailyFile, sentinels, urlIdx, idx, prod, image,
                   changes, sends, lastClass, summaries, crashes, committed, tracking, seen>>

\* The loop condition fails: return [].
FetchExhausted ==
    /\ pc = "fetching"
    /\ ~MayRetry(attempt)
    /\ pageLen' = 0
    /\ pc' = "fetched"
    /\ UNCHANGED <<clock, history, dataFile, dailyFile, sentinels, urlIdx, idx, prod, image,
                   changes, sends, lastClass, summaries, crashes, committed, tracking, seen,
                   attempt, outcomes>>

\* One call analyze_page(url), made by the first cycle of a run.
InitFetch ==
    /\ pc = "fetching"
    /\ clock = FirstTime
    /\ history = EmptyMap
    /\ dataFile = MissingFile
    /\ dailyFile = MissingFile
    /\ committed = EmptyMap
    /\ sentinels = {}
    /\ urlIdx = 0
    /\ pageLen = 0
    /\ idx = 1
    /\ prod = NoProd
    /\ image = FALSE
    /\ changes = <<>>
    /\ sends = <<>>
    /\ lastClass = "none"
    /\ summaries = [d \in Dates |-> 0]
    /\ crashes = 0
    /\ tracking = FALSE
    /\ seen = {}
    /\ attempt = 0
    /\ outcomes = <<>>

NextFetch ==
    \/ FetchAttempt
    \/ FetchExhausted

\* Every pass of the loop ends: session.get has a timeout and the sleeps are
\* finite.
SpecFetch == InitFetch /\ [][NextFetch]_vars /\ WF_vars(NextFetch)

\* ------------------------------------------------------------------ claims
\* A pass of the loop body runs in this step, on Rec; a pass has just run,
\* on prod.
Passed == pc = "records" /\ idx <= pageLen /\ pc' # "boot"
Rec == prod'
JustRead == pc = "records" /\ idx > 1
Day == Today(clock)
Ledger(d) == TodayChanges(dailyFile, d)

\* Exactly ev was appended to today's list and no other list changed.
Appended(ev) ==
    /\ TodayChanges(dailyFile', Day) = Append(Ledger(Day), ev)
    /\ \A d \in Dates \ {Day} : TodayChanges(dailyFile', d) = Ledger(d)

\* C1: a record whose price is null emits no event, makes no sink call and
\* leaves the history (every entry, its presence, price and last_seen) as
\* it was.
NullPriceIsSkipped ==
    [][Passed /\ Rec.precio = None
          => /\ sends' = <<>>
             /\ history' = history
             /\ dailyFile' = dailyFile]_vars

NullPriceSeen ==
    /\ JustRead
    /\ lastClass = "skip"
    /\ prod.precio = None
    /\ prod.asin \in DOMAIN history

\* C2: a priced record whose asin is absent from history is classified new:
\* exactly one event of type new with new = the record's price is appended
\* to today's list, and afterwards history[asin] exists with that price.
AbsentIdIsNew ==
    [][Passed /\ Rec.precio # None /\ Rec.asin \notin DOMAIN history
          => /\ lastClass' = "new"
             /\ Appended([type |-> "new", asin |-> Rec.asin, old |-> None, new |-> Rec.precio])
             /\ Rec.asin \in DOMAIN history'
             /\ history'[Rec.asin].precio = Rec.precio]_vars

NewProductSeen ==
    /\ JustRead
    /\ lastClass = "new"
    /\ history[prod.asin].precio = prod.precio
    /\ Len(Ledger(Day)) > 0
    /\ Ledger(Day)[Len(Ledger(Day))].type = "new"

\* C3: for an asin present in history with price P, a record with a price
\* below P appends exactly one drop event with old = P and new = the
\* record's price and stores that price; a record with a price >= P (equal
\* included) appends nothing, sends nothing and changes only last_seen.
PresentIdDropsOnlyBelow ==
    [][Passed /\ Rec.precio # None /\ Rec.asin \in DOMAIN history
              /\ history[Rec.asin].kind = "dict" /\ history[Rec.asin].precio # None
          => IF Rec.precio < history[Rec.asin].precio
             THEN /\ Appended([type |-> "drop", asin |-> Rec.asin,
                               old |-> history[Rec.asin].precio, new |-> Rec.precio])
                  /\ history'[Rec.asin].precio = Rec.precio
             ELSE /\ dailyFile' = dailyFile
                  /\ sends' = <<>>
                  /\ history' = [history EXCEPT ![Rec.asin].last_seen = clock]]_vars

\* An equal price observed after a drop to that price: unchanged.
EqualPriceAfterDropSeen ==
    /\ JustRead
    /\ lastClass = "unchanged"
    /\ history[prod.asin].precio = prod.precio
    /\ history[prod.asin].last_seen = clock
    /\ \E i \in 1..Len(Ledger(Day)) :
          /\ Ledger(Day)[i].type = "drop"
          /\ Ledger(Day)[i].asin = prod.asin
          /\ Ledger(Day)[i].new = prod.precio

\* C4: a pass over a product the loop body already ran on in this run (the
\* same asin and price: every record of a second process_once over the same
\* pages, and a record repeated inside one process_once) is unchanged, or a
\* skip of a null price: no event, no sink call, no price or entry changes.
RerunIsUnchanged ==
    [][Passed /\ Rec \in seen
          => /\ lastClass' \in {"skip", "unchanged"}
             /\ sends' = <<>>
             /\ dailyFile' = dailyFile
             /\ DOMAIN history' = DOMAIN history
             /\ \A a \in DOMAIN history : history'[a].precio = history[a].precio]_vars

\* A product that was new in an earlier cycle of the run is passed again in
\* a later cycle, with its new event still in the list of the date.
RerunOfNewSeen ==
    /\ JustRead
    /\ tracking
    /\ lastClass = "unchanged"
    /\ history[prod.asin].precio = prod.precio
    /\ history[prod.asin].last_seen = clock
    /\ clock > FirstTime
    /\ \E i \in 1..Len(Ledger(0)) :
          Ledger(0)[i] = [type |-> "new", asin |-> prod.asin, old |-> None, new |-> prod.precio]

\* C5: within one run of the process at most one summary is sent for a
\* date, and once it is sent the sentinel of the date is written before
\* anything else happens.
OneSummaryPerDateInRun ==
    \A d \in Dates :
        /\ summaries[d] <= 1
        /\ summaries[d] = 1 => (d \in sentinels \/ (pc = "summary_sent" /\ Day = d))

\* A check in the summary hour that finds events appended after the summary
\* of the date was sent, and sends nothing.
SecondCheckSkippedSeen ==
    /\ pc = "sleep"
    /\ Hour(clock) = SUMMARY_HOUR
    /\ summaries[Day] = 1
    /\ Day \in sentinels
    /\ Ledger(Day) # <<>>
    /\ sends = <<>>

\* C6: no second summary is sent for a date, restarts included.
OneSummaryPerDateAcrossRestarts ==
    \A d \in Dates : summaries[d] < 2

\* C7: no change is appended to the ledger twice (the list of a date never
\* holds the same event at two positions), restarts included.
OneEventPerChange ==
    \A d \in Dates :
        \A i, j \in 1..Len(Ledger(d)) : i # j => Ledger(d)[i] # Ledger(d)[j]

\* C8: whenever the process starts, DATA_FILE holds the last mapping that
\* was saved to it in full: a save that was cut short did not damage it.
SaveIsAtomic ==
    pc = "boot" /\ committed # EmptyMap => dataFile = FileOf(committed)

\* C9: a record that raises does not end the loop over its page: while
\* records of the page remain, the loop is still on the page.
RecordsAreIsolated ==
    lastClass = "raise" /\ idx <= pageLen => pc = "records"

\* C10: a record classified new or drop is written to history and appended
\* to today's list whatever the sink answered.
UpdateIgnoresDelivery ==
    [][Passed /\ Rec.precio # None
              /\ (\/ Rec.asin \notin DOMAIN history
                  \/ /\ Rec.asin \in DOMAIN history
                     /\ history[Rec.asin].kind = "dict"
                     /\ Rec.precio < history[Rec.asin].precio)
          => /\ sends' # <<>>
             /\ Rec.asin \in DOMAIN history'
             /\ history'[Rec.asin].precio = Rec.precio
             /\ history'[Rec.asin].last_seen = clock
             /\ Len(TodayChanges(dailyFile', Day)) = Len(Ledger(Day)) + 1
             /\ TodayChanges(dailyFile', Day)[Len(Ledger(Day)) + 1].asin = Rec.asin
             /\ TodayChanges(dailyFile', Day)[Len(Ledger(Day)) + 1].new = Rec.precio]_vars

\* Photo and text both failed, and the change is in history and ledger.
FailedDeliveryRecordedSeen ==
    /\ JustRead
    /\ lastClass \in {"new", "drop"}
    /\ Len(sends) = 2
    /\ \A i \in 1..Len(sends) : ~sends[i].ok
    /\ history[prod.asin].precio = prod.precio
    /\ Ledger(Day)[Len(Ledger(Day))].asin = prod.asin
    /\ Ledger(Day)[Len(Ledger(Day))].new = prod.precio

\* C11: after get_and_clear_today_changes has returned the events of a date,
\* a second call for that date with no append in between returns the empty
\* list, and the list stored for the date is empty.
DrainIsDestructive ==
    \A d \in Dates :
        LET first == get_and_clear_today_changes(dailyFile, d)
            second == get_and_clear_today_changes(first.file, d)
        IN /\ TodayChanges(first.file, d) = <<>>
           /\ second.changes = <<>>
           /\ TodayChanges(second.file, d) = <<>>
           /\ second.file = first.file

\* The digest check has drained a list that held events.
DrainedEventsSeen ==
    /\ pc = "drained"
    /\ changes # <<>>
    /\ Ledger(Day) = <<>>
    /\ get_and_clear_today_changes(dailyFile, Day).changes = <<>>

\* C12: once the digest of a date has been sent (its summary went out and
\* its sentinel exists) and the date is over, no event of that date is left
\* in the ledger: every event appended under the date was drained by its
\* digest.
DigestConsumesEveryEvent ==
    \A d \in Dates :
        summaries[d] > 0 /\ d \in sentinels /\ d < Day => Ledger(d) = <<>>

\* A step that leaves list d of the ledger as it was or longer by appends.
Kept(d) ==
    /\ Len(TodayChanges(dailyFile', d)) >= Len(Ledger(d))
    /\ SubSeq(TodayChanges(dailyFile', d), 1, Len(Ledger(d))) = Ledger(d)

\* C13: when the digest fires on an empty list, the sentinel of the date is
\* written and nothing is sent; and for a date whose sentinel was written
\* without a summary, no later step sends a summary, removes the sentinel or
\* drains the list of the date.
EmptyDigestOnlyFlags ==
    [][/\ pc = "drained" /\ changes = <<>> /\ pc' # "boot"
            => /\ sentinels' = sentinels \cup {Day}
               /\ sends' = <<>>
               /\ summaries' = summaries
               /\ dailyFile' = dailyFile
               /\ pc' = "sleep"
       /\ \A d \in Dates :
             d \in sentinels /\ summaries[d] = 0
                => d \in sentinels' /\ summaries'[d] = 0 /\ Kept(d)]_vars

\* After an empty digest, a later check of the same date in the summary hour
\* has found an event in the list and left it there.
CheckAfterEmptyDigestSeen ==
    /\ pc = "sleep"
    /\ Hour(clock) = SUMMARY_HOUR
    /\ Day \in sentinels
    /\ summaries[Day] = 0
    /\ Ledger(Day) # <<>>
    /\ sends = <<>>

\* C14: a digest that fires on n events drains all n (the list of the date
\* is empty afterwards), and its summary holds the first min(n, 30) of them
\* in append order, followed by a note with the count n - 30 exactly when
\* n > 30.
DigestCapsAtThirty ==
    /\ [][pc = "digest" /\ pc' = "drained"
             => changes' = Ledger(Day) /\ TodayChanges(dailyFile', Day) = <<>>]_vars
    /\ [](pc = "summary_sent"
             => LET n == Len(changes)
                    shown == Min(n, SUMMARY_CAP)
                    lines == sends[1].lines
                IN /\ Ledger(Day) = <<>>
                   /\ lines[1].kind = "header"
                   /\ Len(lines) = 1 + shown + (IF n > SUMMARY_CAP THEN 1 ELSE 0)
                   /\ \A i \in 1..shown :
                         /\ lines[i + 1].kind = changes[i].type
                         /\ lines[i + 1].asin = changes[i].asin
                         /\ lines[i + 1].new = changes[i].new
                   /\ n > SUMMARY_CAP <=> lines[Len(lines)].kind = "more"
                   /\ n > SUMMARY_CAP => lines[Len(lines)].count = n - SUMMARY_CAP)

\* A summary of more than 30 events was sent and the list is empty.
OverflowingDigestSeen ==
    /\ pc = "summary_sent"
    /\ Len(changes) > SUMMARY_CAP
    /\ Len(sends[1].lines) = SUMMARY_CAP + 2
    /\ sends[1].lines[SUMMARY_CAP + 2] = [kind |-> "more", count |-> Len(changes) - SUMMARY_CAP]
    /\ Ledger(Day) = <<>>

\* C15, as stated: with history and ledger files that are missing or cannot
\* be loaded, every priced record of the first cycle is classified new.
EveryFirstCycleRecordIsNew ==
    JustRead /\ prod.precio # None => lastClass = "new"

\* C15, amended: a DATA_FILE or DAILY_FILE that is missing or cannot be
\* loaded is read as the empty default and the program goes on; in the first
\* cycle every priced record whose asin was not passed with a price earlier
\* in the cycle is classified new and is the next event of today's list.
LoadNeverFails ==
    [][/\ pc = "boot" => history' = EmptyMap /\ pc' = "next_url"
       /\ Passed /\ Rec.precio # None
                 /\ (\A q \in seen : q.asin = Rec.asin => q.precio = None)
             => /\ lastClass' = "new"
                /\ Appended([type |-> "new", asin |-> Rec.asin, old |-> None,
                             new |-> Rec.precio])
       /\ pc = "digest" /\ dailyFile.st # "ok" /\ pc' = "drained"
             => changes' = <<>> /\ dailyFile' = dailyFile]_vars

\* A record is new in a run started on a corrupt DATA_FILE, and its event is
\* the only one of a ledger that could not be loaded before.
NewAfterCorruptLoadSeen ==
    /\ JustRead
    /\ lastClass = "new"
    /\ dataFile.st = "corrupt"
    /\ dailyFile.st = "ok"
    /\ Ledger(Day) = << [type |-> "new", asin |-> prod.asin, old |-> None, new |-> prod.precio] >>
    /\ LostLedger[Day] # Ledger(Day)

\* The priced observations of asin a since the process started.
PricesSeen(a) == {q.precio : q \in {r \in seen : r.asin = a /\ r.precio # None}}

\* C16: in one run, the price of a history entry appears or changes only in
\* a pass over its asin classified new or drop, an existing price only goes
\* down, every event appended for an asin carries the price stored for it by
\* the same pass, and so the stored price is the lowest price observed for
\* the asin since the entry was inserted.
PriceIsLowestSeen ==
    /\ [][/\ \A a \in DOMAIN history' :
                a \notin DOMAIN history \/ history'[a].precio # history[a].precio
                   => /\ Passed
                      /\ Rec.asin = a
                      /\ lastClass' \in {"new", "drop"}
                      /\ a \in DOMAIN history => history'[a].precio < history[a].precio
                      /\ Len(TodayChanges(dailyFile', Day)) = Len(Ledger(Day)) + 1
          /\ Len(TodayChanges(dailyFile', Day)) > Len(Ledger(Day))
                => LET e == TodayChanges(dailyFile', Day)[Len(Ledger(Day)) + 1]
                   IN /\ e.type = lastClass'
                      /\ e.asin \in DOMAIN history'
                      /\ history'[e.asin].precio = e.new]_vars
    /\ [](\A a \in DOMAIN history :
             /\ history[a].precio \in PricesSeen(a)
             /\ \A x \in PricesSeen(a) : history[a].precio <= x)

\* A product was observed at a price, then lower, then higher again: the
\* entry holds the lowest of the three.
LowestPriceKeptSeen ==
    /\ JustRead
    /\ lastClass = "unchanged"
    /\ prod.precio > history[prod.asin].precio
    /\ Cardinality(PricesSeen(prod.asin)) >= 2
    /\ \E i \in 1..Len(Ledger(Day)) :
          /\ Ledger(Day)[i].type = "drop"
          /\ Ledger(Day)[i].asin = prod.asin
          /\ Ledger(Day)[i].new = history[prod.asin].precio

\* C17: a pass classified new, drop or unchanged sets the last_seen of its
\* asin to the current time, and no step of a run lowers the last_seen of an
\* entry (the clock never goes back).
LastSeenFollowsClock ==
    [][/\ clock' >= clock
       /\ Passed /\ lastClass' \in {"new", "drop", "unchanged"}
             => /\ Rec.asin \in DOMAIN history'
                /\ history'[Rec.asin].last_seen = clock
       /\ \A a \in DOMAIN history :
             /\ a \in DOMAIN history'
             /\ history'[a].last_seen >= history[a].last_seen]_vars

\* An unchanged observation at a later time has moved last_seen forward,
\* past the last_seen of an entry not observed since.
LastSeenAdvancedSeen ==
    /\ JustRead
    /\ lastClass = "unchanged"
    /\ clock > FirstTime
    /\ history[prod.asin].last_seen = clock
    /\ \E b \in DOMAIN history : history[b].last_seen < clock

\* C18: a pass classified new or drop sends a photo exactly when the record
\* has an image, and a text exactly when it has no image or the photo send
\* returned False; each at most once, the photo before the text, and no
\* further send after a text that returned False.
PhotoFirstNoRetry ==
    [][Passed /\ lastClass' \in {"new", "drop"}
          => LET photos == {i \in DOMAIN sends' : sends'[i].kind = "photo"}
                 texts == {i \in DOMAIN sends' : sends'[i].kind = "text"}
             IN /\ Cardinality(photos) <= 1
                /\ Cardinality(texts) <= 1
                /\ Len(sends') = Cardinality(photos) + Cardinality(texts)
                /\ photos # {} <=> image'
                /\ texts # {} <=> (~image' \/ \E i \in photos : ~sends'[i].ok)
                /\ \A i \in photos, j \in texts : i < j]_vars

\* The photo of a record with an image failed and the text went out.
PhotoFailedTextSentSeen ==
    /\ JustRead
    /\ lastClass \in {"new", "drop"}
    /\ image
    /\ sends = << [kind |-> "photo", ok |-> FALSE], [kind |-> "text", ok |-> TRUE] >>

\* C19: a digest check made in an hour other than SUMMARY_HOUR, or when the
\* sentinel of today exists, returns at once: the ledger (every date), the
\* sentinels and the history are as before and nothing is sent.
IdleDigestCheckChangesNothing ==
    [][pc = "digest" /\ (Hour(clock) # SUMMARY_HOUR \/ Day \in sentinels)
          => /\ pc' = "sleep"
             /\ dailyFile' = dailyFile
             /\ sentinels' = sentinels
             /\ history' = history
             /\ dataFile' = dataFile
             /\ summaries' = summaries
             /\ sends' = <<>>]_vars

\* A check outside the summary hour, on a date with no sentinel, has left
\* the events of the date in the ledger.
CheckOutsideHourSeen ==
    /\ pc = "sleep"
    /\ Hour(clock) # SUMMARY_HOUR
    /\ Day \notin sentinels
    /\ Ledger(Day) # <<>>
    /\ summaries[Day] = 0
    /\ sends = <<>>

\* C20: whatever session.get answers, analyze_page returns; it makes at most
\* MAX_RETRIES attempts; it returns the records parsed from the first answer
\* that is a status-200 page without CAPTCHA, and the empty list when none
\* of its MAX_RETRIES attempts got such an answer.
FetchLoopTerminates ==
    /\ <>(pc = "fetched")
    /\ [](attempt <= MAX_RETRIES /\ Len(outcomes) = attempt)
    /\ [](pc = "fetched"
            => IF \E i \in 1..attempt : Good(outcomes[i])
               THEN /\ Good(outcomes[attempt])
                    /\ \A i \in 1..(attempt - 1) : ~Good(outcomes[i])
                    /\ pageLen = Parsed(outcomes[attempt])
               ELSE /\ attempt = MAX_RETRIES
                    /\ pageLen = 0)

\* An exception, then a CAPTCHA page, then a good page with records: the
\* third attempt returns them.
LastAttemptSucceedsSeen ==
    /\ pc = "fetched"
    /\ attempt = MAX_RETRIES
    /\ outcomes[1].kind = "exception"
    /\ outcomes[2].captcha /\ outcomes[2].status = HTTP_OK
    /\ Good(outcomes[3])
    /\ pageLen = MaxPageLen

====
